---- MODULE Spec2Model ----
(***************************************************************************)
(* The three tutorial notebooks of nominalpy_examples as client programs   *)
(* of a remote simulation session.                                         *)
(*                                                                         *)
(* A notebook is a straight-line sequence of remote calls (loops are       *)
(* unrolled over their index, nested calls are put in Python's evaluation  *)
(* order: receiver, arguments left to right, then the call itself).  The   *)
(* interpreter issues the calls one at a time; each call either returns    *)
(* or raises, and an exception is never caught, so it stops the run.       *)
(* The session state (objects, message links, power-bus connections,       *)
(* subscriptions, clock, telemetry tables) is what the notebooks' own      *)
(* text documents of the remote service.                                   *)
(***************************************************************************)
EXTENDS Integers, Sequences, FiniteSets, TLC

VARIABLES
    nb,               \* the notebook being run
    pc,               \* index of the next call to issue
    outstanding,      \* indices of the calls issued and not yet returned
    issued,           \* history: the call indices in the order they were issued
    failedAt,         \* index of the call that raised, 0 while none has
    env,              \* Python variables: name -> sequence of object ids
    objs,             \* session objects, by id (1..Len): type, kind, parent, props
    links,            \* message links: set of [dst, in, src, out]
    messages,         \* message handles resolved so far: <<object id, name>>
    busConn,          \* power-bus connections: <<bus, from, to>>
    invoked,          \* other remote methods invoked: <<object id, method>>
    trackingInterval, \* the session's polling interval (set_tracking_interval)
    tracked,          \* subscriptions: message -> [interval, atTick, call]
    telemetry,        \* recorded rows: message -> sequence of rows
    clock,            \* simulated time, seconds
    advances,         \* history of the completed advances and their configuration
    retrieved,        \* history of the tables retrieved
    pollAt,           \* which end of an advance a polling instant on its edge falls in
    shading           \* the shading loop of a plot cell: its tables, index and spans

vars == <<nb, pc, outstanding, issued, failedAt, env, objs, links, messages,
          busConn, invoked, trackingInterval, tracked, telemetry, clock,
          advances, retrieved, pollAt, shading>>

Range(s) == {s[i] : i \in DOMAIN s}

(***************************************************************************)
(* Handles and message names.  A handle is a Python expression naming an   *)
(* object: a variable (index 0) or an element of a list (index i, counted  *)
(* from 1).  A message name In_X / Out_X is kept as <<"In"|"Out", "X">>.   *)
(***************************************************************************)
H(v) == <<v, 0>>
At(v, i) == <<v, i>>
In(tag) == <<"In", tag>>
Out(tag) == <<"Out", tag>>
NoH == <<"", 0>>
NoM == <<"", "">>
NoRes == <<"", "none">>
Assign(v) == <<v, "assign">>
AppendTo(v) == <<v, "append">>
Sim == H("simulation")

\* A kwarg In_X=<handle>.get_message("Out_Y")
Link(inTag, h, outTag) == <<In(inTag), h, Out(outTag)>>

BaseCall ==
    [op |-> "", recv |-> NoH, name |-> "", args |-> <<>>, props |-> {},
     links |-> {}, src |-> NoH, msg |-> NoM, res |-> NoRes, time |-> 0, cell |-> 0]

\* h.get_message(m)
GetMessage(cell, h, m) ==
    << [BaseCall EXCEPT !.op = "get_message", !.recv = h, !.src = h, !.msg = m,
                        !.cell = cell] >>

\* the get_message calls of a sequence of link kwargs, in order
LinkGets(cell, ls) ==
    [i \in 1..Len(ls) |->
        [BaseCall EXCEPT !.op = "get_message", !.recv = ls[i][2], !.src = ls[i][2],
                         !.msg = ls[i][3], !.cell = cell]]

\* recv.<op>(type, **props, **links), the result bound as res
Add(cell, op, recv, type, props, ls, res) ==
    LinkGets(cell, ls) \o
    << [BaseCall EXCEPT !.op = op, !.recv = recv, !.name = type, !.props = props,
                        !.links = Range(ls), !.res = res, !.cell = cell] >>

\* simulation.add_component(type, owner, **props, **links), appended to a list
AddComponent(cell, type, owner, props, ls, res) ==
    LinkGets(cell, ls) \o
    << [BaseCall EXCEPT !.op = "add_component", !.recv = Sim, !.name = type,
                        !.args = owner, !.props = props, !.links = Range(ls),
                        !.res = res, !.cell = cell] >>

\* recv.set(**props, **links)
SetCall(cell, recv, props, ls) ==
    LinkGets(cell, ls) \o
    << [BaseCall EXCEPT !.op = "set", !.recv = recv, !.props = props,
                        !.links = Range(ls), !.cell = cell] >>

\* recv.invoke(method, *args)
Invoke(cell, recv, method, args) ==
    << [BaseCall EXCEPT !.op = "invoke", !.recv = recv, !.name = method,
                        !.args = args, !.cell = cell] >>

\* res = recv.get_model(name)
GetModel(cell, recv, name, res) ==
    << [BaseCall EXCEPT !.op = "get_model", !.recv = recv, !.name = name,
                        !.res = res, !.cell = cell] >>

\* simulation.track_object(h.get_message(m))
Track(cell, h, m) ==
    GetMessage(cell, h, m) \o
    << [BaseCall EXCEPT !.op = "track_object", !.recv = Sim, !.src = h, !.msg = m,
                        !.cell = cell] >>

\* h.get_message(m).subscribe(step)
Subscribe(cell, h, m, step) ==
    GetMessage(cell, h, m) \o
    << [BaseCall EXCEPT !.op = "subscribe", !.recv = h, !.src = h, !.msg = m,
                        !.time = step, !.cell = cell] >>

\* simulation.tick_duration(step=..., time=d)
Tick(cell, d) ==
    << [BaseCall EXCEPT !.op = "tick_duration", !.recv = Sim, !.time = d,
                        !.cell = cell] >>

\* simulation.query_dataframe(h.get_message(m))
Query(cell, h, m) ==
    GetMessage(cell, h, m) \o
    << [BaseCall EXCEPT !.op = "query_dataframe", !.recv = Sim, !.src = h, !.msg = m,
                        !.cell = cell] >>

\* df_ops_modes = simulation.query_dataframe(h.get_message(m)), shaded by the loop below it
QueryOpsModes(cell, h, m) ==
    GetMessage(cell, h, m) \o
    << [BaseCall EXCEPT !.op = "query_dataframe", !.recv = Sim, !.name = "df_ops_modes",
                        !.src = h, !.msg = m, !.cell = cell] >>

\* h.get_message(m).fetch_df()
FetchDf(cell, h, m) ==
    GetMessage(cell, h, m) \o
    << [BaseCall EXCEPT !.op = "fetch_df", !.recv = h, !.src = h, !.msg = m,
                        !.cell = cell] >>


(***************************************************************************)
(* Notebook 3: scenarios/tutorials/3_power_system.ipynb                    *)
(***************************************************************************)
Nb3Duration == 864
Nb3Interval == 30

SpacecraftProps ==
    {<<"TotalMass", "750">>, <<"TotalCenterOfMassB_B", "[0,0,0]">>,
     <<"TotalMomentOfInertiaB_B", "diag(900,800,600)">>, <<"OverrideMass", "True">>,
     <<"Position", "orbit[0]">>, <<"Velocity", "orbit[1]">>,
     <<"Attitude", "[0.1,0.2,-0.3]">>, <<"AttitudeRate", "[0.001,-0.01,0.03]">>}

\* simulation = Simulation.get(credentials)
Nb3Session ==
    << [BaseCall EXCEPT !.op = "Simulation.get", !.res = Assign("simulation"), !.cell = 2] >>

\* universe = simulation.get_system(types.SOLAR_SYSTEM, Epoch=epoch)
Nb3Universe ==
    << [BaseCall EXCEPT !.op = "get_system", !.recv = Sim, !.name = "SolarSystem",
                        !.props = {<<"Epoch", "2023-01-01">>},
                        !.res = Assign("universe"), !.cell = 3] >>

\* spacecraft = simulation.add_object(types.SPACECRAFT, ...)
Nb3Spacecraft ==
    Add(5, "add_object", Sim, "Spacecraft", SpacecraftProps, <<>>, Assign("spacecraft"))

\* the reaction wheel array and its three wheels
ReactionWheelsCell(cell) ==
    Add(cell, "add_child", H("spacecraft"), "ReactionWheelArray", {}, <<>>,
        Assign("reaction_wheels"))
    \o Add(cell, "add_child", H("reaction_wheels"), "ReactionWheel",
           {<<"WheelSpinAxis_B", "[1,0,0]">>}, <<>>, Assign("rw1"))
    \o Add(cell, "add_child", H("reaction_wheels"), "ReactionWheel",
           {<<"WheelSpinAxis_B", "[0,1,0]">>}, <<>>, Assign("rw2"))
    \o Add(cell, "add_child", H("reaction_wheels"), "ReactionWheel",
           {<<"WheelSpinAxis_B", "[0,0,1]">>}, <<>>, Assign("rw3"))

\* computer = spacecraft.add_child("GuidanceComputer"); computer.set(...)
Nb3Computer ==
    Add(6, "add_child", H("spacecraft"), "GuidanceComputer", {}, <<>>, Assign("computer"))
    \o SetCall(6, H("computer"),
               {<<"PointingMode", "Nadir">>, <<"ControllerMode", "MRP">>,
                <<"MappingMode", "ReactionWheels">>}, <<>>)

Nb3SolarPanel ==
    Add(7, "add_child", H("spacecraft"), "SolarPanel",
        {<<"Area", "0.01">>, <<"Efficiency", "0.23">>}, <<>>, Assign("solar_panel"))

Nb3Battery ==
    Add(7, "add_child", H("spacecraft"), "Battery", {<<"ChargeFraction", "0.2">>},
        <<>>, Assign("battery"))

Nb3Bus ==
    Add(7, "add_child", H("spacecraft"), "PowerBus", {}, <<>>, Assign("bus"))

\* bus.invoke("Connect", solar_panel.id, battery.id)
Nb3Connect ==
    Invoke(8, H("bus"), "Connect", <<H("solar_panel"), H("battery")>>)

\* simulation.set_tracking_interval(interval=30)
SetTrackingInterval(cell, iv) ==
    << [BaseCall EXCEPT !.op = "set_tracking_interval", !.recv = Sim, !.time = iv,
                        !.cell = cell] >>

\* faulty variant: the guidance chain message is not subscribed
Nb3Tracking_NoGuidanceChain ==
    SetTrackingInterval(9, Nb3Interval)
    \o Track(9, H("computer"), Out("AttitudeErrorMsg"))
    \o Track(9, H("spacecraft"), Out("SpacecraftStateMsg"))
    \o Track(9, H("battery"), Out("BatteryMsg"))
    \o Track(9, H("solar_panel"), Out("PowerMsg"))

Nb3Tracking ==
    SetTrackingInterval(9, Nb3Interval)
    \o Track(9, H("computer"), Out("AttitudeErrorMsg"))
    \o Track(9, H("spacecraft"), Out("SpacecraftStateMsg"))
    \o Track(9, H("computer"), Out("GuidanceChainMsg"))
    \o Track(9, H("battery"), Out("BatteryMsg"))
    \o Track(9, H("solar_panel"), Out("PowerMsg"))

\* faulty variant: the advance between two mode changes is missing
Nb3Run_MissingAdvance ==
    Tick(10, Nb3Duration)
    \o SetCall(10, H("computer"), {<<"PointingMode", "Sun">>}, <<>>)
    \o Tick(10, Nb3Duration)
    \o SetCall(10, H("computer"), {<<"PointingMode", "Velocity">>}, <<>>)
    \o SetCall(10, H("computer"), {<<"PointingMode", "Inertial">>}, <<>>)
    \o Tick(10, Nb3Duration)
    \o Tick(10, Nb3Duration)

Nb3Run ==
    Tick(10, Nb3Duration)
    \o SetCall(10, H("computer"), {<<"PointingMode", "Sun">>}, <<>>)
    \o Tick(10, Nb3Duration)
    \o SetCall(10, H("computer"), {<<"PointingMode", "Velocity">>}, <<>>)
    \o Tick(10, Nb3Duration)
    \o SetCall(10, H("computer"), {<<"PointingMode", "Inertial">>}, <<>>)
    \o Tick(10, Nb3Duration)

Nb3Plots ==
    Query(11, H("battery"), Out("BatteryMsg"))
    \o QueryOpsModes(11, H("computer"), Out("GuidanceChainMsg"))
    \o Query(12, H("solar_panel"), Out("PowerMsg"))
    \o QueryOpsModes(12, H("computer"), Out("GuidanceChainMsg"))

Nb3Program ==
    Nb3Session \o Nb3Universe \o Nb3Spacecraft \o ReactionWheelsCell(6) \o Nb3Computer
    \o Nb3SolarPanel \o Nb3Battery \o Nb3Bus \o Nb3Connect
    \o Nb3Tracking \o Nb3Run \o Nb3Plots

(***************************************************************************)
(* Notebook 4: scenarios/tutorials/4_linking_components_via_messages.ipynb *)
(***************************************************************************)
Nb4Duration == 4000
Nb4Interval == 30

Nb4Session ==
    << [BaseCall EXCEPT !.op = "Simulation.get", !.res = Assign("simulation"), !.cell = 2] >>

Nb4Universe ==
    << [BaseCall EXCEPT !.op = "get_system", !.recv = Sim, !.name = "SolarSystem",
                        !.props = {<<"Epoch", "2023-01-01">>},
                        !.res = Assign("universe"), !.cell = 3] >>

Nb4Spacecraft ==
    Add(5, "add_object", Sim, "Spacecraft", SpacecraftProps, <<>>, Assign("spacecraft"))

\* solar_panel = spacecraft.add_child("SolarPanel", ...); solar_panel.invoke("RollDegrees", 90.0)
Nb4SolarPanel ==
    Add(7, "add_child", H("spacecraft"), "SolarPanel",
        {<<"Area", "0.014">>, <<"Efficiency", "0.23">>}, <<>>, Assign("solar_panel"))
    \o Invoke(7, H("solar_panel"), "RollDegrees", <<>>)

Nb4Battery ==
    Add(7, "add_child", H("spacecraft"), "Battery", {<<"ChargeFraction", "0.8">>},
        <<>>, Assign("battery"))

Nb4Bus ==
    Add(7, "add_child", H("spacecraft"), "PowerBus", {}, <<>>, Assign("bus"))

\* bus.invoke("Connect", solar_panel, battery)
Nb4ConnectPanel ==
    Invoke(8, H("bus"), "Connect", <<H("solar_panel"), H("battery")>>)

\* faulty variant: the wheels are fed from a second battery put on the same bus
Nb4ConnectWheels_SecondBattery ==
    Add(8, "add_child", H("spacecraft"), "Battery", {<<"ChargeFraction", "0.8">>},
        <<>>, Assign("battery2"))
    \o Invoke(8, H("bus"), "Connect", <<H("battery2"), H("reaction_wheels")>>)

\* bus.invoke("Connect", battery, reaction_wheels)
Nb4ConnectWheels ==
    Invoke(8, H("bus"), "Connect", <<H("battery"), H("reaction_wheels")>>)

\* rw_motor_power_model = reaction_wheels.get_model(...) and its four table entries
Nb4PowerModel ==
    GetModel(8, H("reaction_wheels"), "ReactionWheelArrayPowerModel",
             Assign("rw_motor_power_model"))
    \o Invoke(8, H("rw_motor_power_model"), "AddLookupTableEntry", <<>>)
    \o Invoke(8, H("rw_motor_power_model"), "AddLookupTableEntry", <<>>)
    \o Invoke(8, H("rw_motor_power_model"), "AddLookupTableEntry", <<>>)
    \o Invoke(8, H("rw_motor_power_model"), "AddLookupTableEntry", <<>>)

Nb4Navigator ==
    Add(9, "add_behaviour", H("spacecraft"), "SimpleNavigationSoftware", {}, <<>>,
        Assign("navigator"))

\* simulation.get_planet("earth"): the planet object, held in no named variable
GetPlanet(cell, planet) ==
    << [BaseCall EXCEPT !.op = "get_planet", !.recv = Sim, !.name = planet,
                        !.res = Assign(planet), !.cell = cell] >>

Nb4Ephemeris ==
    GetPlanet(9, "earth")
    \o Add(9, "add_behaviour", H("spacecraft"), "PlanetEphemerisTranslationSoftware", {},
           << Link("PlanetStateMsg", H("earth"), "PlanetStateMsg") >>,
           Assign("ephemeris_fsw"))

Nb4Lvlh ==
    Add(9, "add_behaviour", H("spacecraft"), "NadirPointingSoftware", {},
        << Link("NavigationTranslationMsg", H("navigator"), "NavigationTranslationMsg"),
           Link("EphemerisMsg", H("ephemeris_fsw"), "EphemerisMsg") >>,
        Assign("lvlh_fsw"))

Nb4TrackingError ==
    Add(9, "add_behaviour", H("spacecraft"), "AttitudeReferenceErrorSoftware", {},
        << Link("NavigationAttitudeMsg", H("navigator"), "NavigationAttitudeMsg"),
           Link("AttitudeReferenceMsg", H("lvlh_fsw"), "AttitudeReferenceMsg") >>,
        Assign("attitude_tracking_error_fsw"))

MrpGains ==
    {<<"K", "3.5">>, <<"P", "30.0">>, <<"Ki", "-1.0">>, <<"IntegralLimit", "-0.2">>}

Nb4MrpFeedback ==
    Add(9, "add_behaviour", H("spacecraft"), "MRPFeedbackControlSoftware", MrpGains,
        << Link("AttitudeErrorMsg", H("attitude_tracking_error_fsw"), "AttitudeErrorMsg"),
           Link("RWArraySpeedMsg", H("reaction_wheels"), "RWArraySpeedMsg"),
           Link("RWArrayConfigMsg", H("reaction_wheels"), "RWArrayConfigMsg") >>,
        Assign("mrp_feedback_fsw"))

Nb4TorqueMapping ==
    Add(9, "add_behaviour", H("spacecraft"), "RWTorqueMappingSoftware",
        {<<"ControlAxes_B", "identity(3)">>},
        << Link("RWArrayConfigMsg", H("reaction_wheels"), "RWArrayConfigMsg"),
           Link("CommandTorqueMsg", H("mrp_feedback_fsw"), "CommandTorqueMsg") >>,
        Assign("rw_motor_torque_fsw"))

\* solar_panel.get("RelativeNormal"), evaluated among the kwargs of sun_point
GetProperty(cell, h, prop) ==
    << [BaseCall EXCEPT !.op = "get", !.recv = h, !.name = prop, !.cell = cell] >>

SunPointProps ==
    {<<"MinUnitMag", "0.001">>, <<"SmallAngle", "0.001">>,
     <<"SunBodyVector", "solar_panel.RelativeNormal">>, <<"Omega_RN_B", "[0,0,0]">>,
     <<"SunAxisSpinRate", "0.0">>}

Nb4SunPoint ==
    GetProperty(9, H("solar_panel"), "RelativeNormal")
    \o Add(9, "add_behaviour", H("spacecraft"), "SunSafePointingSoftware", SunPointProps,
           << Link("NavigationAttitudeMsg", H("navigator"), "NavigationAttitudeMsg"),
              Link("SunDirectionMsg", H("navigator"), "NavigationAttitudeMsg") >>,
           Assign("sun_point"))

Nb4VoltageMapping ==
    Add(10, "add_behaviour", H("spacecraft"), "RWVoltageMappingSoftware",
        {<<"MaxVoltage", "10">>, <<"MinVoltage", "0">>},
        << Link("RWArrayConfigMsg", H("reaction_wheels"), "RWArrayConfigMsg"),
           Link("RWArraySpeedMsg", H("reaction_wheels"), "RWArraySpeedMsg"),
           Link("MotorTorqueArrayMsg", H("rw_motor_torque_fsw"), "MotorTorqueArrayMsg") >>,
        Assign("rw_motor_voltage_fsw"))

Nb4PowerModelLink ==
    SetCall(10, H("rw_motor_power_model"), {},
            << Link("MotorVoltageArrayMsg", H("rw_motor_voltage_fsw"),
                    "MotorVoltageArrayMsg") >>)

\* faulty variant: the conversion reads the voltage mapping's output, past the power model
Nb4VoltageIo_Direct ==
    Add(10, "add_behaviour", H("spacecraft"), "VoltageTorqueConversionSoftware",
        {<<"Gain", "[0.02,0.02,0.02]">>},
        << Link("MotorVoltageArrayMsg", H("rw_motor_voltage_fsw"),
                "MotorVoltageArrayMsg") >>,
        Assign("rw_voltage_io"))

Nb4VoltageIo ==
    Add(10, "add_behaviour", H("spacecraft"), "VoltageTorqueConversionSoftware",
        {<<"Gain", "[0.02,0.02,0.02]">>},
        << Link("MotorVoltageArrayMsg", H("rw_motor_power_model"),
                "MotorVoltageArrayMsg") >>,
        Assign("rw_voltage_io"))

\* faulty variant: the array's input is bound to the array's own output
Nb4WheelsLink_Self ==
    SetCall(10, H("reaction_wheels"), {},
            << Link("MotorTorqueArrayMsg", H("reaction_wheels"), "MotorTorqueArrayMsg") >>)

Nb4WheelsLink ==
    SetCall(10, H("reaction_wheels"), {},
            << Link("MotorTorqueArrayMsg", H("rw_voltage_io"), "MotorTorqueArrayMsg") >>)

\* the fetched solar model is held in no named variable
Nb4Tracking ==
    SetTrackingInterval(11, Nb4Interval)
    \o Track(11, H("attitude_tracking_error_fsw"), Out("AttitudeErrorMsg"))
    \o Track(11, H("spacecraft"), Out("SpacecraftStateMsg"))
    \o Track(11, H("battery"), Out("BatteryMsg"))
    \o Track(11, H("solar_panel"), Out("PowerMsg"))
    \o Track(11, H("rw_motor_power_model"), Out("MotorVoltageArrayMsg"))
    \o GetModel(11, H("solar_panel"), "Universe.SolarModel", Assign("solar_model"))
    \o Track(11, H("solar_model"), Out("EclipseMsg"))
    \o Track(11, H("sun_point"), Out("AttitudeErrorMsg"))

\* mrp_feedback_fsw.set(In_AttitudeErrorMsg=sun_point.get_message("Out_AttitudeErrorMsg"))
Nb4Relink ==
    SetCall(13, H("mrp_feedback_fsw"), {},
            << Link("AttitudeErrorMsg", H("sun_point"), "AttitudeErrorMsg") >>)

\* faulty variant: sun_point's output is subscribed only once it is used, between the advances
Nb4Run_SubscribeLate ==
    Tick(12, Nb4Duration) \o Track(13, H("sun_point"), Out("AttitudeErrorMsg"))
    \o Nb4Relink \o Tick(14, Nb4Duration)

\* faulty variant: the re-link is made before the first advance
Nb4Run_RelinkEarly ==
    Nb4Relink \o Tick(12, Nb4Duration) \o Tick(14, Nb4Duration)

\* faulty variant: the re-link is made after the second advance
Nb4Run_RelinkLate ==
    Tick(12, Nb4Duration) \o Tick(14, Nb4Duration) \o Nb4Relink

Nb4Run ==
    Tick(12, Nb4Duration) \o Nb4Relink \o Tick(14, Nb4Duration)

\* ax.axvspan(0, duration, ...) and ax.axvspan(duration, 2 * duration, ...), with the
\* legend entries of the two spans (the same in the three plots)
Nb4Spans ==
    << [x |-> 0, y |-> Nb4Duration, label |-> "Nadir Pointing"],
       [x |-> Nb4Duration, y |-> 2 * Nb4Duration, label |-> "Sun Pointing"] >>

Nb4Plots ==
    Query(15, H("battery"), Out("BatteryMsg"))
    \o Query(15, H("solar_panel"), Out("PowerMsg"))
    \o Query(16, H("sun_point"), Out("AttitudeErrorMsg"))
    \o Query(16, H("attitude_tracking_error_fsw"), Out("AttitudeErrorMsg"))

Nb4Program ==
    Nb4Session \o Nb4Universe \o Nb4Spacecraft \o ReactionWheelsCell(6)
    \o Nb4SolarPanel \o Nb4Battery \o Nb4Bus
    \o Nb4ConnectPanel \o Nb4ConnectWheels \o Nb4PowerModel
    \o Nb4Navigator \o Nb4Ephemeris \o Nb4Lvlh \o Nb4TrackingError \o Nb4MrpFeedback
    \o Nb4TorqueMapping \o Nb4SunPoint
    \o Nb4VoltageMapping \o Nb4PowerModelLink \o Nb4VoltageIo \o Nb4WheelsLink
    \o Nb4Tracking \o Nb4Run \o Nb4Plots

(***************************************************************************)
(* The constellation notebook (unnamed/part_000).  The loop variable sc of *)
(* `for i, sc in enumerate(spacecraft)` is spacecraft[i]; list indices are *)
(* counted from 1 here.                                                    *)
(***************************************************************************)
NumSpacecraft == 5
SubscribeStep == 5
ConstellationDuration == 400

\* the bodies of a loop, one after the other
RECURSIVE Flatten(_)
Flatten(ss) == IF ss = <<>> THEN <<>> ELSE Head(ss) \o Flatten(Tail(ss))

\* simulation = Simulation(credentials)
ConsSession ==
    << [BaseCall EXCEPT !.op = "Simulation", !.res = Assign("simulation"), !.cell = 8] >>

\* universe = simulation.get_system(types.UNIVERSE, Epoch=...)
ConsUniverse ==
    << [BaseCall EXCEPT !.op = "get_system", !.recv = Sim, !.name = "Universe",
                        !.props = {<<"Epoch", "2021-01-15T00:28:30">>},
                        !.res = Assign("universe"), !.cell = 9] >>

ConsSpacecraftProps ==
    {<<"TotalMass", "4.0">>, <<"TotalCenterOfMassB_B", "[0,0,0]">>,
     <<"TotalMomentOfInertiaB_B", "diag(0.02/3,0.1256/3,0.1256/3)">>,
     <<"Position", "r_bn_n">>, <<"Velocity", "v_bn_n">>,
     <<"Attitude", "random_mrp()">>, <<"AttitudeRate", "[0,0,0]">>}

\* sc = simulation.add_component(types.SPACECRAFT, ...); spacecraft.append(sc)
ConsSpacecraftBody(i) ==
    AddComponent(12, "Spacecraft", <<>>, ConsSpacecraftProps, <<>>, AppendTo("spacecraft"))

ConsSpacecraftLoop == Flatten([i \in 1..NumSpacecraft |-> ConsSpacecraftBody(i)])

\* simulation.get_planet_message(planet=p): the state message of planet p.  Its name
\* is not in the notebook; notebook 4 names the planet's output Out_PlanetStateMsg.
PlanetMessage == Out("PlanetStateMsg")

GetPlanetMessage(cell, planet) ==
    << [BaseCall EXCEPT !.op = "get_planet_message", !.recv = Sim, !.name = planet,
                        !.src = H(planet), !.msg = PlanetMessage,
                        !.res = Assign(planet), !.cell = cell] >>

\* simulation.add_component(type, owner, ...) whose kwargs are evaluated by `pre`
AddComponentWith(cell, type, owner, props, pre, ls, res) ==
    pre \o
    << [BaseCall EXCEPT !.op = "add_component", !.recv = Sim, !.name = type,
                        !.args = owner, !.props = props, !.links = Range(ls),
                        !.res = res, !.cell = cell] >>

\* faulty variant: sc is the variable the spacecraft loop left behind, the last spacecraft
ConsNavigator_StaleSc(i) ==
    AddComponentWith(13, "SimpleNavigator", << At("spacecraft", NumSpacecraft) >>, {},
        GetMessage(13, At("spacecraft", NumSpacecraft), Out("BodyStatesMsg"))
        \o GetPlanetMessage(13, "sun"),
        << Link("BodyStateMsg", At("spacecraft", NumSpacecraft), "BodyStatesMsg"),
           <<In("SunStateMsg"), H("sun"), PlanetMessage>> >>,
        AppendTo("navigators"))

ConsNavigator(i) ==
    AddComponentWith(13, "SimpleNavigator", << At("spacecraft", i) >>, {},
        GetMessage(13, At("spacecraft", i), Out("BodyStatesMsg"))
        \o GetPlanetMessage(13, "sun"),
        << Link("BodyStateMsg", At("spacecraft", i), "BodyStatesMsg"),
           <<In("SunStateMsg"), H("sun"), PlanetMessage>> >>,
        AppendTo("navigators"))

ConsEphemConverter(i) ==
    AddComponentWith(13, "EphemerisNavigationConverterSoftware",
        << At("spacecraft", i) >>, {},
        GetPlanetMessage(13, "earth"),
        << <<In("SpicePlanetStateMsg"), H("earth"), PlanetMessage>> >>,
        AppendTo("ephem_converter_fsws"))

\* faulty variant: an off-by-one index reads the navigator of the next spacecraft
ConsLvlh_NextIndex(i) ==
    AddComponent(13, "LVLHPointingSoftware", << At("spacecraft", i) >>, {},
        << Link("NavTransMsg", At("navigators", i + 1), "NavTransMsg"),
           Link("EphemerisMsg", At("ephem_converter_fsws", i), "EphemerisMsg") >>,
        AppendTo("lvlh_fsws"))

ConsLvlh(i) ==
    AddComponent(13, "LVLHPointingSoftware", << At("spacecraft", i) >>, {},
        << Link("NavTransMsg", At("navigators", i), "NavTransMsg"),
           Link("EphemerisMsg", At("ephem_converter_fsws", i), "EphemerisMsg") >>,
        AppendTo("lvlh_fsws"))

ConsTrackingError(i) ==
    AddComponent(13, "AttitudeTrackingErrorSoftware", << At("spacecraft", i) >>, {},
        << Link("NavAttMsg", At("navigators", i), "NavAttMsg"),
           Link("AttRefMsg", At("lvlh_fsws", i), "AttRefMsg") >>,
        AppendTo("attitude_tracking_error_fsws"))

ConsMrpGains ==
    {<<"K", "(P/xi)^2/(0.1256/3)">>, <<"P", "(0.1256/3)/10.0">>, <<"Ki", "-1.0">>,
     <<"IntegralLimit", "-0.2">>}

ConsMrpFeedback(i) ==
    AddComponent(13, "MRPFeedbackSoftware", << At("spacecraft", i) >>, ConsMrpGains,
        << Link("AttGuidMsg", At("attitude_tracking_error_fsws", i), "AttGuidMsg"),
           Link("VehicleConfigMsg", At("spacecraft", i), "VehicleConfigMsg") >>,
        AppendTo("mrp_feedback_fsws"))

ConsExtTorque(i) ==
    AddComponent(13, "ExternalForceTorque", << At("spacecraft", i) >>, {},
        << Link("CmdTorqueBodyMsg", At("mrp_feedback_fsws", i), "CmdTorqueBodyMsg") >>,
        AppendTo("ext_torque"))

ConsFswBody(i) ==
    ConsNavigator(i) \o ConsEphemConverter(i) \o ConsLvlh(i) \o ConsTrackingError(i)
    \o ConsMrpFeedback(i) \o ConsExtTorque(i)

ConsFswLoop == Flatten([i \in 1..NumSpacecraft |-> ConsFswBody(i)])

ConsSubscribeBody(k) ==
    Subscribe(14, At("spacecraft", k), Out("BodyMassPropsMsg"), SubscribeStep)
    \o Subscribe(14, At("spacecraft", k), Out("BodyStatesMsg"), SubscribeStep)
    \o Subscribe(14, At("attitude_tracking_error_fsws", k), Out("AttGuidMsg"), SubscribeStep)
    \o Subscribe(14, At("mrp_feedback_fsws", k), Out("CmdTorqueBodyMsg"), SubscribeStep)
    \o Subscribe(14, At("navigators", k), Out("NavAttMsg"), SubscribeStep)

ConsSubscribeLoop == Flatten([i \in 1..NumSpacecraft |-> ConsSubscribeBody(i)])

ConsRun == Tick(15, ConstellationDuration)

ConsFetchAtt(i) == FetchDf(16, At("attitude_tracking_error_fsws", i), Out("AttGuidMsg"))
ConsFetchBody(i) == FetchDf(16, At("spacecraft", i), Out("BodyStatesMsg"))

\* dfs_att, df_body_state and df_att: three comprehensions over the lists
ConsFetch ==
    Flatten([i \in 1..NumSpacecraft |-> ConsFetchAtt(i)]) \o Flatten([i \in 1..NumSpacecraft |-> ConsFetchBody(i)])
    \o Flatten([i \in 1..NumSpacecraft |-> ConsFetchAtt(i)])

ConsProgram ==
    ConsSession \o ConsUniverse \o ConsSpacecraftLoop \o ConsFswLoop
    \o ConsSubscribeLoop \o ConsRun \o ConsFetch

Notebooks == {"nb3", "nb4", "constellation"}

Program(n) ==
    CASE n = "nb3" -> Nb3Program
      [] n = "nb4" -> Nb4Program
      [] OTHER -> ConsProgram

(***************************************************************************)
(* The session: what each call does when it returns.                       *)
(***************************************************************************)
AllCalls == Range(Nb3Program) \cup Range(Nb4Program) \cup Range(ConsProgram)

VarNames ==
    {c.res[1] : c \in AllCalls} \cup {c.recv[1] : c \in AllCalls}
    \cup {c.src[1] : c \in AllCalls}
    \cup UNION {{c.args[i][1] : i \in DOMAIN c.args} : c \in AllCalls}
    \cup UNION {{l[2][1] : l \in c.links} : c \in AllCalls}

\* the object a handle names, 0 when the variable is unbound or the index out of range
Deref(h) ==
    LET k == IF h[2] = 0 THEN 1 ELSE h[2]
    IN  IF h[1] \in DOMAIN env /\ k <= Len(env[h[1]]) THEN env[h[1]][k] ELSE 0

\* the handles a call reads
HandlesOf(c) ==
    (IF c.recv = NoH THEN {} ELSE {c.recv})
    \cup (IF c.src = NoH \/ c.op = "get_planet_message" THEN {} ELSE {c.src})
    \cup Range(c.args)
    \cup {l[2] : l \in c.links}

\* faulty variant: the list is rebuilt around the new handle (x = [h]) instead of extended
Bind_Overwrite(e, res, id) ==
    IF res[2] = "none" THEN e ELSE [e EXCEPT ![res[1]] = <<id>>]

\* x = ... rebinds the variable, x.append(...) extends the list
Bind(e, res, id) ==
    IF res[2] = "assign" THEN [e EXCEPT ![res[1]] = <<id>>]
    ELSE IF res[2] = "append" THEN [e EXCEPT ![res[1]] = Append(@, id)]
    ELSE e

CreateOps ==
    {"Simulation.get", "Simulation", "get_system", "add_object", "add_child",
     "add_behaviour", "add_component"}
ResolveOps == {"get_model", "get_planet", "get_planet_message"}
TrackOps == {"track_object", "subscribe"}
QueryOps == {"query_dataframe", "fetch_df"}

KindOf(op) ==
    CASE op \in {"Simulation.get", "Simulation"} -> "session"
      [] op = "get_system" -> "system"
      [] op = "add_object" -> "object"
      [] op = "add_child" -> "child"
      [] op = "add_behaviour" -> "behaviour"
      [] op = "add_component" -> "component"
      [] op = "get_model" -> "model"
      [] OTHER -> "planet"

\* the owner of the object a call creates or resolves
ParentOf(c) ==
    CASE c.op \in {"add_child", "add_behaviour", "get_model"} -> Deref(c.recv)
      [] c.op = "add_component" -> IF Len(c.args) > 0 THEN Deref(c.args[1]) ELSE 0
      [] c.op \in {"get_planet", "get_planet_message"} -> Deref(H("universe"))
      [] OTHER -> 0

\* faulty variant: set resets the properties it is not given to their defaults
SetProps_Replace(old, new) == new

\* keyword properties overwrite the properties of the same name and keep the others
SetProps(old, new) ==
    {p \in old : \A q \in new : q[1] # p[1]} \cup new

\* faulty variant: a new binding is added next to the binding the input had
Rebind_Adding(lk, b, ls) ==
    lk \cup {[dst |-> b, in |-> l[1], src |-> Deref(l[2]), out |-> l[3]] : l \in ls}

\* faulty variant: set drops every link the object had and keeps the new ones only
Rebind_AllInputs(lk, b, ls) ==
    {e \in lk : e.dst # b}
    \cup {[dst |-> b, in |-> l[1], src |-> Deref(l[2]), out |-> l[3]] : l \in ls}

\* binding input In_X of object b replaces what the input was bound to
Rebind(lk, b, ls) ==
    {e \in lk : ~(e.dst = b /\ \E l \in ls : l[1] = e.in)}
    \cup {[dst |-> b, in |-> l[1], src |-> Deref(l[2]), out |-> l[3]] : l \in ls}

\* faulty variant: a bus holds one connection, the last one made
Connected_Replacing(bc, bus, a, b) == {e \in bc : e[1] # bus} \cup {<<bus, a, b>>}

\* Connect(a, b) on a bus adds the connection a -> b to those the bus has
Connected(bc, bus, a, b) == bc \cup {<<bus, a, b>>}

ModeOf(id) ==
    IF id \in DOMAIN objs /\ \E p \in objs[id].props : p[1] = "PointingMode"
    THEN (CHOOSE p \in objs[id].props : p[1] = "PointingMode")[2]
    ELSE "-"

\* the rows polled for message m during advance k, from time lo to time hi
Rows(m, lo, hi, k) ==
    LET iv == tracked[m].interval
        first == IF iv <= 0 THEN 0
                 ELSE IF pollAt = "start" THEN ((lo + iv - 1) \div iv) * iv
                 ELSE ((lo \div iv) + 1) * iv
        n == IF iv <= 0 THEN 0
             ELSE IF pollAt = "start"
                  THEN (IF first < hi THEN ((hi - 1 - first) \div iv) + 1 ELSE 0)
                  ELSE (IF first <= hi THEN ((hi - first) \div iv) + 1 ELSE 0)
    IN  [j \in 1..n |->
            [Time |-> first + (j - 1) * iv, tick |-> k, PointingMode |-> ModeOf(m[1])]]

\* faulty variant: each advance starts the tables afresh
Recorded_Overwrite(tel, lo, hi, k) ==
    [m \in DOMAIN tel |-> Rows(m, lo, hi, k)]

\* an advance appends the rows it polls to every subscribed message's table
Recorded(tel, lo, hi, k) ==
    [m \in DOMAIN tel |-> tel[m] \o Rows(m, lo, hi, k)]

\* subscribing starts an empty table, and keeps the table of a message already subscribed
Subscribed(tel, m) ==
    [x \in DOMAIN tel \cup {m} |-> IF x \in DOMAIN tel THEN tel[x] ELSE <<>>]

\* the table a retrieval returns
TableOf(m) == IF m \in DOMAIN telemetry THEN telemetry[m] ELSE <<>>

\* faulty variant: every advance starts the clock again from zero
Advanced_Restart(t, d) == d

\* the clock after an advance of d seconds made at time t
Advanced(t, d) == t + d

(***************************************************************************)
(* The shading loop of the notebook 3 plot cells.  Rows and loop indices   *)
(* are counted from 1 here, colours C0, C1, ... from 0 as in the source.   *)
(***************************************************************************)
\* df[df["PointingMode"] != df["PointingMode"].shift(1)]: the rows whose mode differs
\* from the row before; the first row is compared with a missing value and is kept
\* faulty variant: the filter is left out and every row starts a span
ModeChanges_EveryRow(t) == t

\* faulty variant: shift(-1) for shift(1): the rows whose mode differs from the row after
ModeChanges_ShiftBack(t) ==
    LET kept == {n \in 1..Len(t) : n = Len(t) \/ t[n].PointingMode # t[n + 1].PointingMode}
        nth(k) == CHOOSE n \in kept : Cardinality({m \in kept : m <= n}) = k
    IN  [k \in 1..Cardinality(kept) |-> t[nth(k)]]

ModeChanges(t) ==
    LET kept == {n \in 1..Len(t) : n = 1 \/ t[n].PointingMode # t[n - 1].PointingMode}
        nth(k) == CHOOSE n \in kept : Cardinality({m \in kept : m <= n}) = k
    IN  [k \in 1..Cardinality(kept) |-> t[nth(k)]]

\* faulty variant: the else branch is missing and every span runs to the last sample
SpanAt_AlwaysToEnd(t, d, i) ==
    [x |-> d[i].Time, y |-> t[Len(t)].Time, color |-> i - 1, label |-> d[i].PointingMode]

\* iteration i of the loop: ax.axvspan(x, y, color=f"C{i}") and ax.text(x, .., mode)
SpanAt(t, d, i) ==
    [x |-> d[i].Time,
     y |-> IF i = Len(d) THEN t[Len(t)].Time ELSE d[i + 1].Time,
     color |-> i - 1,
     label |-> d[i].PointingMode]

\* no table has been handed to a shading loop
NoShading == [df_ops_modes |-> <<>>, df_ops_modes_diff |-> <<>>, i |-> 0, spans |-> <<>>]

\* the loop starts on table t
StartShading(t) ==
    [df_ops_modes |-> t, df_ops_modes_diff |-> ModeChanges(t), i |-> 0, spans |-> <<>>]

\* for i in range(0, len(df_ops_modes_diff)) has iterations left
Shading == shading.i < Len(shading.df_ops_modes_diff)

(***************************************************************************)
(* The interpreter.                                                        *)
(***************************************************************************)
Prog == Program(nb)

\* faulty variant: calls are fired without waiting for the one before
CanIssue_Async == TRUE

\* a statement starts only when the one before it has returned
CanIssue == outstanding = {}

\* faulty variant: the exception is swallowed (try/except: pass) and the run goes on
Halted_Swallowed == FALSE

\* no try/except anywhere: an exception ends the run
Halted == failedAt # 0

Init ==
    /\ nb \in Notebooks
    /\ pollAt \in {"start", "end"}
    /\ pc = 1
    /\ outstanding = {}
    /\ issued = <<>>
    /\ failedAt = 0
    /\ env = [v \in VarNames |-> <<>>]
    /\ objs = <<>>
    /\ links = {}
    /\ messages = {}
    /\ busConn = {}
    /\ invoked = <<>>
    /\ trackingInterval = 0
    /\ tracked = <<>>
    /\ telemetry = <<>>
    /\ clock = 0
    /\ advances = <<>>
    /\ retrieved = <<>>
    /\ shading = NoShading

session == <<env, objs, links, messages, busConn, invoked, trackingInterval, tracked,
             telemetry, clock, advances, retrieved, shading>>

Issue ==
    /\ ~Halted
    /\ CanIssue
    /\ ~Shading
    /\ pc <= Len(Prog)
    /\ outstanding' = outstanding \cup {pc}
    /\ issued' = Append(issued, pc)
    /\ pc' = pc + 1
    /\ UNCHANGED <<nb, pollAt, failedAt, session>>

\* the call raises (bad credentials, invalid property name, type mismatch, ...)
Raise(i) ==
    /\ outstanding' = outstanding \ {i}
    /\ failedAt' = i
    /\ UNCHANGED <<nb, pollAt, pc, issued, session>>

Returns(i) ==
    /\ outstanding' = outstanding \ {i}
    /\ UNCHANGED <<nb, pollAt, pc, issued, failedAt>>

ReturnCreate(i) ==
    LET c == Prog[i]
        id == Len(objs) + 1
    IN  /\ c.op \in CreateOps
        /\ objs' = Append(objs, [type |-> c.name, kind |-> KindOf(c.op),
                                 parent |-> ParentOf(c), props |-> c.props])
        /\ env' = Bind(env, c.res, id)
        /\ links' = Rebind(links, id, c.links)
        /\ Returns(i)
        /\ UNCHANGED <<shading, messages, busConn, invoked, trackingInterval, tracked, telemetry,
                       clock, advances, retrieved>>

ReturnResolve(i) ==
    LET c == Prog[i]
        have == {id \in DOMAIN objs : /\ objs[id].kind = KindOf(c.op)
                                      /\ objs[id].type = c.name
                                      /\ objs[id].parent = ParentOf(c)}
        id == IF have = {} THEN Len(objs) + 1 ELSE CHOOSE x \in have : TRUE
    IN  /\ c.op \in ResolveOps
        /\ objs' = IF have = {}
                   THEN Append(objs, [type |-> c.name, kind |-> KindOf(c.op),
                                      parent |-> ParentOf(c), props |-> {}])
                   ELSE objs
        /\ env' = Bind(env, c.res, id)
        /\ messages' = IF c.op = "get_planet_message"
                       THEN messages \cup {<<id, c.msg>>} ELSE messages
        /\ Returns(i)
        /\ UNCHANGED <<shading, links, busConn, invoked, trackingInterval, tracked, telemetry,
                       clock, advances, retrieved>>

ReturnSet(i) ==
    LET c == Prog[i]
        r == Deref(c.recv)
    IN  /\ c.op = "set"
        /\ objs' = IF r \in DOMAIN objs
                   THEN [objs EXCEPT ![r].props = SetProps(@, c.props)] ELSE objs
        /\ links' = Rebind(links, r, c.links)
        /\ Returns(i)
        /\ UNCHANGED <<shading, env, messages, busConn, invoked, trackingInterval, tracked,
                       telemetry, clock, advances, retrieved>>

ReturnGet(i) ==
    /\ Prog[i].op = "get"
    /\ Returns(i)
    /\ UNCHANGED session

ReturnGetMessage(i) ==
    LET c == Prog[i]
    IN  /\ c.op = "get_message"
        /\ messages' = messages \cup {<<Deref(c.src), c.msg>>}
        /\ Returns(i)
        /\ UNCHANGED <<shading, env, objs, links, busConn, invoked, trackingInterval, tracked,
                       telemetry, clock, advances, retrieved>>

ReturnConnect(i) ==
    LET c == Prog[i]
    IN  /\ c.op = "invoke" /\ c.name = "Connect"
        /\ busConn' = Connected(busConn, Deref(c.recv), Deref(c.args[1]), Deref(c.args[2]))
        /\ Returns(i)
        /\ UNCHANGED <<shading, env, objs, links, messages, invoked, trackingInterval, tracked,
                       telemetry, clock, advances, retrieved>>

ReturnInvoke(i) ==
    LET c == Prog[i]
    IN  /\ c.op = "invoke" /\ c.name # "Connect"
        /\ invoked' = Append(invoked, <<Deref(c.recv), c.name>>)
        /\ Returns(i)
        /\ UNCHANGED <<shading, env, objs, links, messages, busConn, trackingInterval, tracked,
                       telemetry, clock, advances, retrieved>>

ReturnSetTrackingInterval(i) ==
    LET c == Prog[i]
    IN  /\ c.op = "set_tracking_interval"
        /\ trackingInterval' = c.time
        /\ Returns(i)
        /\ UNCHANGED <<shading, env, objs, links, messages, busConn, invoked, tracked,
                       telemetry, clock, advances, retrieved>>

ReturnTrack(i) ==
    LET c == Prog[i]
        m == <<Deref(c.src), c.msg>>
        iv == IF c.op = "subscribe" THEN c.time ELSE trackingInterval
    IN  /\ c.op \in TrackOps
        /\ tracked' = [x \in DOMAIN tracked \cup {m} |->
                          IF x = m THEN [interval |-> iv, atTick |-> Len(advances), call |-> i]
                          ELSE tracked[x]]
        /\ telemetry' = Subscribed(telemetry, m)
        /\ Returns(i)
        /\ UNCHANGED <<shading, env, objs, links, messages, busConn, invoked, trackingInterval,
                       clock, advances, retrieved>>

ReturnTick(i) ==
    LET c == Prog[i]
        k == Len(advances) + 1
    IN  /\ c.op = "tick_duration"
        /\ clock' = Advanced(clock, c.time)
        /\ telemetry' = Recorded(telemetry, clock, Advanced(clock, c.time), k)
        /\ advances' = Append(advances,
                [from |-> clock, to |-> Advanced(clock, c.time), call |-> i, links |-> links,
                 modes |-> {<<id, ModeOf(id)>> : id \in {x \in DOMAIN objs : ModeOf(x) # "-"}}])
        /\ Returns(i)
        /\ UNCHANGED <<shading, env, objs, links, messages, busConn, invoked, trackingInterval,
                       tracked, retrieved>>

ReturnQuery(i) ==
    LET c == Prog[i]
        m == <<Deref(c.src), c.msg>>
    IN  /\ c.op \in QueryOps
        /\ retrieved' = Append(retrieved,
                [msg |-> m, rows |-> TableOf(m), call |-> i, tick |-> Len(advances)])
        /\ shading' = IF c.name = "df_ops_modes" THEN StartShading(TableOf(m)) ELSE shading
        /\ Returns(i)
        /\ UNCHANGED <<env, objs, links, messages, busConn, invoked, trackingInterval,
                       tracked, telemetry, clock, advances>>

\* one iteration of the shading loop: local plotting, no remote call
Shade ==
    /\ ~Halted
    /\ outstanding = {}
    /\ Shading
    /\ shading' = [shading EXCEPT
            !.i = @ + 1,
            !.spans = Append(@, SpanAt(shading.df_ops_modes, shading.df_ops_modes_diff,
                                       shading.i + 1))]
    /\ UNCHANGED <<nb, pollAt, pc, outstanding, issued, failedAt, env, objs, links,
                   messages, busConn, invoked, trackingInterval, tracked, telemetry,
                   clock, advances, retrieved>>

Next ==
    \/ Issue
    \/ Shade
    \/ \E i \in outstanding : Raise(i)
    \/ \E i \in outstanding : ReturnCreate(i)
    \/ \E i \in outstanding : ReturnResolve(i)
    \/ \E i \in outstanding : ReturnSet(i)
    \/ \E i \in outstanding : ReturnGet(i)
    \/ \E i \in outstanding : ReturnGetMessage(i)
    \/ \E i \in outstanding : ReturnConnect(i)
    \/ \E i \in outstanding : ReturnInvoke(i)
    \/ \E i \in outstanding : ReturnSetTrackingInterval(i)
    \/ \E i \in outstanding : ReturnTrack(i)
    \/ \E i \in outstanding : ReturnTick(i)
    \/ \E i \in outstanding : ReturnQuery(i)

Spec == Init /\ [][Next]_vars

(***************************************************************************)
(* The shading loop on any table: a second specification that starts the   *)
(* loop on every table of at most MaxRows rows, sorted by time as          *)
(* retrieved tables are, and runs it to its end.                           *)
(***************************************************************************)
MaxRows == 4
MaxTime == 4

\* the values computer.set(PointingMode=...) is given in notebook 3
PointingModes == {"Nadir", "Sun", "Velocity", "Inertial"}

\* the elements of a set of numbers, in increasing order
Sorted(S) ==
    [k \in 1..Cardinality(S) |-> CHOOSE n \in S : Cardinality({m \in S : m <= n}) = k]

Tables ==
    UNION {{[k \in 1..Cardinality(S) |-> [Time |-> Sorted(S)[k], PointingMode |-> f[k]]] :
                f \in [1..Cardinality(S) -> PointingModes]} :
           S \in {T \in SUBSET (0..MaxTime) : Cardinality(T) <= MaxRows}}

\* the plot cell of notebook 3 right after its query returned some table
ShadeInit ==
    /\ nb = "nb3"
    /\ pollAt = "start"
    /\ pc = Len(Nb3Program) + 1
    /\ outstanding = {}
    /\ issued = <<>>
    /\ failedAt = 0
    /\ env = [v \in VarNames |-> <<>>]
    /\ objs = <<>>
    /\ links = {}
    /\ messages = {}
    /\ busConn = {}
    /\ invoked = <<>>
    /\ trackingInterval = 0
    /\ tracked = <<>>
    /\ telemetry = <<>>
    /\ clock = 0
    /\ advances = <<>>
    /\ retrieved = <<>>
    /\ shading \in {StartShading(t) : t \in Tables}

ShadeNext == Shade

ShadeSpec == ShadeInit /\ [][ShadeNext]_vars

(***************************************************************************)
(* Properties                                                              *)
(***************************************************************************)
\* call i was issued and has returned without raising
Returned(i) == i \in Range(issued) /\ i \notin outstanding /\ failedAt # i

Finished == pc > Len(Prog) /\ outstanding = {} /\ failedAt = 0

TickCalls == {i \in DOMAIN Prog : Prog[i].op = "tick_duration"}
ConnectCalls == {i \in DOMAIN Prog : Prog[i].op = "invoke" /\ Prog[i].name = "Connect"}

\* C1: in notebook 4 every link binds an input In_<T> to an output Out_<T> of the
\* same type tag T, the two inputs of the SunSafePointingSoftware behaviour included.
C1_LinkTypesMatch ==
    nb = "nb4" => \A e \in links : e.in[2] = e.out[2]

\* the objects of type Battery that bus b is connected to
BatteriesOn(b) ==
    {o \in DOMAIN objs : /\ objs[o].type = "Battery"
                         /\ \E e \in busConn : e[1] = b /\ (e[2] = o \/ e[3] = o)}

\* C2: in every state the Connect calls of the notebooks reach, each power bus is
\* connected to at most one battery.
C2_OneBatteryPerBus ==
    \A b \in DOMAIN objs : objs[b].type = "PowerBus" => Cardinality(BatteriesOn(b)) <= 1

\* both Connect calls of notebook 4 have returned, and the bus holds a battery
C2_Witness ==
    /\ nb = "nb4"
    /\ \A i \in ConnectCalls : Returned(i)
    /\ Cardinality(BatteriesOn(Deref(H("bus")))) = 1

\* the connection call i asks for
EdgeOf(i) == <<Deref(Prog[i].recv), Deref(Prog[i].args[1]), Deref(Prog[i].args[2])>>

\* C3: a Connect call keeps the connections made by the Connect calls before it; after
\* both calls of notebook 4 the bus has the solar panel as source of the battery, the
\* reaction wheel array as its sink, and one and the same battery in both connections.
C3_ConnectKeepsConnections ==
    /\ \A i \in ConnectCalls : Returned(i) => EdgeOf(i) \in busConn
    /\ (nb = "nb4" /\ \A i \in ConnectCalls : Returned(i)) =>
          LET bus == Deref(H("bus"))
              sp == Deref(H("solar_panel"))
              bat == Deref(H("battery"))
              rw == Deref(H("reaction_wheels"))
          IN  /\ busConn = {<<bus, sp, bat>>, <<bus, bat, rw>>}
              /\ objs[bus].type = "PowerBus"
              /\ objs[sp].type = "SolarPanel"
              /\ objs[bat].type = "Battery"
              /\ objs[rw].type = "ReactionWheelArray"

\* the second Connect call of notebook 4 has returned
C3_Witness ==
    /\ nb = "nb4"
    /\ Cardinality(ConnectCalls) = 2
    /\ \A i \in ConnectCalls : Returned(i)
    /\ Cardinality(busConn) = 2

\* C4: at most one remote call is outstanding at any time, and it is the call issued
\* last: every call issued before it has returned (or raised).
C4_OneCallAtATime ==
    /\ Cardinality(outstanding) <= 1
    /\ \A i \in outstanding : i = issued[Len(issued)]
    /\ \A k \in DOMAIN issued : issued[k] = k

\* a tick_duration call is outstanding in the flight software notebook, after many calls
C4_Witness ==
    /\ nb = "constellation"
    /\ \E i \in outstanding : Prog[i].op = "tick_duration"
    /\ Len(issued) > NumSpacecraft

\* C5: a call that raises is not retried and nothing catches the exception: every
\* statement reached has issued its call exactly once, and once a call has raised
\* no later statement issues a call.
C5_NoRetryNoRecovery ==
    /\ \A i \in DOMAIN Prog :
          Cardinality({k \in DOMAIN issued : issued[k] = i}) = (IF i < pc THEN 1 ELSE 0)
    /\ failedAt # 0 => /\ outstanding = {}
                       /\ Len(issued) = failedAt
                       /\ pc = failedAt + 1

\* a call has raised in the middle of a cell: later statements of the cell never ran
C5_Witness ==
    /\ failedAt # 0
    /\ Prog[failedAt].op = "tick_duration"
    /\ \E j \in DOMAIN Prog : j > failedAt /\ Prog[j].cell = Prog[failedAt].cell

\* C6: no call destroys anything: the objects keep their identity, type, kind and
\* owner, the set of messages only grows, and the variables and lists of the notebook
\* keep the handles they hold, each naming an object of the session.
C6_NeverDestroyed ==
    [][ /\ Len(objs) <= Len(objs')
        /\ \A id \in DOMAIN objs : /\ objs'[id].type = objs[id].type
                                   /\ objs'[id].kind = objs[id].kind
                                   /\ objs'[id].parent = objs[id].parent
        /\ messages \subseteq messages'
        /\ \A v \in DOMAIN env : \A k \in DOMAIN env[v] :
              k \in DOMAIN env'[v] /\ env'[v][k] = env[v][k]
        /\ \A v \in DOMAIN env' : \A k \in DOMAIN env'[v] : env'[v][k] \in DOMAIN objs'
      ]_vars

\* the flight software loop has created components and resolved messages
C6_Witness ==
    /\ nb = "constellation"
    /\ Len(env["ext_torque"]) = NumSpacecraft
    /\ Len(objs) > NumSpacecraft
    /\ messages # {}

MutationOps ==
    {"add_object", "add_child", "add_behaviour", "add_component", "set", "invoke"}

\* set call j, issued between call i and the advance of call t, rebinds or resets what
\* set call i set under key
Overridden(i, t, key) ==
    \E j \in (i + 1)..(t - 1) :
        /\ Prog[j].op = "set"
        /\ Prog[j].recv = Prog[i].recv
        /\ \/ \E l \in Prog[j].links : l[1] = key
           \/ \E p \in Prog[j].props : p[1] = key

\* C7: a call that changes the object graph or the link graph is issued while no
\* advance is in progress and with a tick_duration call still to come, and what a
\* set call sets (a pointing mode, a link) is in force during the next advance.
C7_MutationBetweenAdvances ==
    /\ \A i \in outstanding :
          Prog[i].op \in MutationOps =>
              /\ \A j \in outstanding : Prog[j].op # "tick_duration"
              /\ \E t \in TickCalls : t > i
    /\ \A k \in DOMAIN advances :
          LET t == advances[k].call
          IN  \A i \in 1..(t - 1) :
                 Prog[i].op = "set" =>
                     /\ \A l \in Prog[i].links :
                           ~Overridden(i, t, l[1]) =>
                               [dst |-> Deref(Prog[i].recv), in |-> l[1],
                                src |-> Deref(l[2]), out |-> l[3]] \in advances[k].links
                     /\ \A p \in Prog[i].props :
                           (p[1] = "PointingMode" /\ ~Overridden(i, t, p[1])) =>
                               <<Deref(Prog[i].recv), p[2]>> \in advances[k].modes

\* the second advance of notebook 4 ran with the controller bound to sun_point
C7_Witness ==
    /\ nb = "nb4"
    /\ Len(advances) = 2
    /\ \E e \in advances[2].links :
          /\ e.dst = Deref(H("mrp_feedback_fsw"))
          /\ e.src = Deref(H("sun_point"))
    /\ \A e \in advances[1].links : e.src # Deref(H("sun_point"))

\* C8: every link binds an input message of one object to an output message of
\* another object.
C8_LinksInputToOtherOutput ==
    \A e \in links :
        /\ e.in[1] = "In"
        /\ e.out[1] = "Out"
        /\ e.src # e.dst
        /\ e.src \in DOMAIN objs
        /\ e.dst \in DOMAIN objs

\* every link of notebook 4 and of the flight software loop has been made
C8_Witness ==
    /\ Finished
    /\ nb = "constellation"
    /\ Cardinality(links) >= 2 * NumSpacecraft

\* C9: a message whose table is retrieved was subscribed by a call that returned
\* before the first tick_duration call.
C9_SubscribedBeforeRetrieved ==
    \A k \in DOMAIN retrieved :
        LET m == retrieved[k].msg
        IN  /\ m \in DOMAIN tracked
            /\ tracked[m].atTick = 0
            /\ \A t \in TickCalls : tracked[m].call < t

\* a table with rows was retrieved
C9_Witness ==
    \E k \in DOMAIN retrieved : retrieved[k].rows # <<>>

Increasing(t) == \A a \in 1..(Len(t) - 1) : t[a].Time < t[a + 1].Time

\* table t has rows of every advance first..last, each within its advance
Covers(t, first, last) ==
    /\ \A k \in first..last : \E a \in DOMAIN t : t[a].tick = k
    /\ \A a \in DOMAIN t :
          /\ t[a].tick \in first..last
          /\ advances[t[a].tick].from <= t[a].Time
          /\ t[a].Time <= advances[t[a].tick].to

\* C10: the table of a subscribed message holds, in strictly increasing time
\* order, the rows of every advance made since it was subscribed; so does every table
\* retrieved, and the guidance chain table notebook 3 retrieves after its fourth
\* advance has rows of all four pointing modes.
C10_TelemetryAccumulates ==
    /\ \A m \in DOMAIN telemetry :
          /\ Increasing(telemetry[m])
          /\ Covers(telemetry[m], tracked[m].atTick + 1, Len(advances))
    /\ \A k \in DOMAIN retrieved :
          /\ Increasing(retrieved[k].rows)
          /\ Covers(retrieved[k].rows, 1, retrieved[k].tick)
          /\ (nb = "nb3" /\ retrieved[k].msg[2] = Out("GuidanceChainMsg")) =>
                /\ retrieved[k].tick = 4
                /\ {retrieved[k].rows[a].PointingMode : a \in DOMAIN retrieved[k].rows}
                      = {"Nadir", "Sun", "Velocity", "Inertial"}

\* notebook 3 has retrieved the guidance chain table after its fourth advance
C10_Witness ==
    /\ nb = "nb3"
    /\ \E k \in DOMAIN retrieved :
          /\ retrieved[k].msg[2] = Out("GuidanceChainMsg")
          /\ retrieved[k].tick = 4
          /\ Len(retrieved[k].rows) > 4

\* C11: only tick_duration advances simulated time: the clock is the end of the last
\* completed advance (0 before the first), every advance starts where the one before
\* ended and lasts exactly the duration its call asked for, so no other call moves
\* the clock; at the end of the run it reads 4*864 s in notebook 3, 2*4000 s in
\* notebook 4 and 400 s in the constellation notebook.
C11_OnlyTickAdvancesClock ==
    /\ Len(advances) = Cardinality({i \in TickCalls : Returned(i)})
    /\ \A k \in DOMAIN advances :
          /\ advances[k].call \in TickCalls
          /\ advances[k].from = (IF k = 1 THEN 0 ELSE advances[k - 1].to)
          /\ advances[k].to = advances[k].from + Prog[advances[k].call].time
          /\ advances[k].from <= advances[k].to
    /\ clock = (IF advances = <<>> THEN 0 ELSE advances[Len(advances)].to)
    /\ Finished =>
          clock = (CASE nb = "nb3" -> 4 * Nb3Duration
                     [] nb = "nb4" -> 2 * Nb4Duration
                     [] OTHER -> ConstellationDuration)

\* notebook 3 has run to its end, retrievals included, after four advances
C11_Witness ==
    /\ nb = "nb3"
    /\ Finished
    /\ Len(advances) = 4
    /\ Len(retrieved) = 4
    /\ clock = 4 * Nb3Duration

\* the re-link call of notebook 4: mrp_feedback_fsw.set(In_AttitudeErrorMsg=...)
RelinkCalls ==
    {i \in DOMAIN Prog : Prog[i].op = "set" /\ Prog[i].recv = H("mrp_feedback_fsw")}

\* the link from output out of the object h names to input in of the object g names
LinkOf(g, in, h, out) ==
    [dst |-> Deref(g), in |-> In(in), src |-> Deref(h), out |-> Out(out)]

\* C12: the return of mrp_feedback_fsw.set(In_AttitudeErrorMsg=...) replaces the one
\* link into In_AttitudeErrorMsg (from the attitude reference error behaviour) by the
\* link from sun_point, and changes nothing else: the controller keeps its two other
\* links and its gains, the torque mapping stays linked to its output, no object is
\* created or changed, and no variable is rebound.
C12_RelinkChangesOnlyNamedInput ==
    [][ (\E i \in RelinkCalls : i \in outstanding /\ i \notin outstanding' /\ failedAt' = 0) =>
          LET mrp == H("mrp_feedback_fsw")
              old == LinkOf(mrp, "AttitudeErrorMsg", H("attitude_tracking_error_fsw"),
                            "AttitudeErrorMsg")
              new == LinkOf(mrp, "AttitudeErrorMsg", H("sun_point"), "AttitudeErrorMsg")
          IN  /\ old \in links
              /\ old # new
              /\ links' = (links \ {old}) \cup {new}
              /\ {e \in links' : e.dst = Deref(mrp)} =
                    {new,
                     LinkOf(mrp, "RWArraySpeedMsg", H("reaction_wheels"), "RWArraySpeedMsg"),
                     LinkOf(mrp, "RWArrayConfigMsg", H("reaction_wheels"), "RWArrayConfigMsg")}
              /\ LinkOf(H("rw_motor_torque_fsw"), "CommandTorqueMsg", mrp, "CommandTorqueMsg")
                    \in links'
              /\ objs[Deref(mrp)].type = "MRPFeedbackControlSoftware"
              /\ objs[Deref(mrp)].props = MrpGains
              /\ objs' = objs
              /\ env' = env
              /\ UNCHANGED <<messages, busConn, invoked, trackingInterval, tracked,
                             telemetry, clock, advances, retrieved>>
      ]_vars

\* the re-link has returned: the controller's error input comes from sun_point
C12_Witness ==
    /\ nb = "nb4"
    /\ \E i \in RelinkCalls : Returned(i)
    /\ LinkOf(H("mrp_feedback_fsw"), "AttitudeErrorMsg", H("sun_point"), "AttitudeErrorMsg")
          \in links

\* the object whose output is bound to input in of the object g names, in link set lk
SourcesOf(lk, g, in) == {e.src : e \in {x \in lk : x.dst = Deref(g) /\ x.in = In(in)}}

\* C13: notebook 4 makes two advances, [0, duration] and [duration, 2*duration]
\* with duration = 4000 s.  During the first the controller's In_AttitudeErrorMsg is
\* bound to the attitude reference error behaviour, itself fed by the nadir pointing
\* behaviour; during the second it is bound to sun_point.  The re-link is made at
\* simulated time duration, and the two shaded spans of the plots are these two
\* advances, which together cover the simulated time.
C13_NadirThenSunPhases ==
    nb = "nb4" =>
        /\ Len(advances) <= Len(Nb4Spans)
        /\ \A k \in DOMAIN advances :
              /\ advances[k].from = Nb4Spans[k].x
              /\ advances[k].to = Nb4Spans[k].y
              /\ SourcesOf(advances[k].links, H("mrp_feedback_fsw"), "AttitudeErrorMsg") =
                    {IF k = 1 THEN Deref(H("attitude_tracking_error_fsw"))
                              ELSE Deref(H("sun_point"))}
              /\ SourcesOf(advances[k].links, H("attitude_tracking_error_fsw"),
                           "AttitudeReferenceMsg") = {Deref(H("lvlh_fsw"))}
              /\ objs[Deref(H("lvlh_fsw"))].type = "NadirPointingSoftware"
              /\ objs[Deref(H("sun_point"))].type = "SunSafePointingSoftware"
        /\ \A i \in RelinkCalls :
              i \in outstanding => clock = Nb4Duration /\ Len(advances) = 1
        /\ Nb4Spans[1].x = 0
        /\ Nb4Spans[1].y = Nb4Spans[2].x
        /\ Nb4Spans[1].y = Nb4Duration
        /\ Nb4Spans[2].y = 2 * Nb4Duration
        /\ Finished => Len(advances) = 2 /\ clock = Nb4Spans[2].y

\* notebook 4 has made both advances and drawn its plots
C13_Witness ==
    /\ nb = "nb4"
    /\ Finished
    /\ Len(advances) = 2
    /\ advances[2].from = Nb4Duration

\* the rows of table t whose mode differs from the row before, the first row included
ChangeRows(t) == {n \in 1..Len(t) : n = 1 \/ t[n].PointingMode # t[n - 1].PointingMode}

\* row n of the shaded table lies in span i: from the span's start up to, and not
\* including, its end, which starts the next span; the last span includes its end
InSpan(i, n) ==
    LET t == shading.df_ops_modes
        sp == shading.spans[i]
    IN  /\ sp.x <= t[n].Time
        /\ \/ t[n].Time < sp.y
           \/ i = Len(shading.df_ops_modes_diff) /\ t[n].Time = sp.y

\* the modes of table t are a run of Nadir, then of Sun, of Velocity and of Inertial
IsFourModeRun(t) ==
    \E a, b, c \in 1..Len(t) :
        /\ a < b /\ b < c /\ c < Len(t)
        /\ \A n \in 1..Len(t) :
              t[n].PointingMode = (IF n <= a THEN "Nadir" ELSE IF n <= b THEN "Sun"
                                   ELSE IF n <= c THEN "Velocity" ELSE "Inertial")

\* C14: the shading loop draws one span per row whose PointingMode differs from the
\* row before (so as many spans as such rows once it has ended), each span starting
\* at such a row; the samples in a span all have the mode the span is annotated with,
\* two consecutive spans are annotated with different modes, and a table whose modes
\* run Nadir, Sun, Velocity, Inertial gets exactly four spans with these labels in
\* this order.
C14_OneSpanPerMode ==
    LET t == shading.df_ops_modes
        sp == shading.spans
    IN  /\ Len(sp) = shading.i
        /\ Len(sp) <= Cardinality(ChangeRows(t))
        /\ ~Shading => Len(sp) = Cardinality(ChangeRows(t))
        /\ \A i \in DOMAIN sp :
              /\ \E n \in ChangeRows(t) :
                    /\ sp[i].x = t[n].Time
                    /\ sp[i].label = t[n].PointingMode
                    /\ Cardinality({m \in ChangeRows(t) : m <= n}) = i
              /\ \E n \in DOMAIN t : InSpan(i, n)
              /\ \A n \in DOMAIN t : InSpan(i, n) => t[n].PointingMode = sp[i].label
        /\ \A i \in 1..(Len(sp) - 1) : sp[i].label # sp[i + 1].label
        /\ (IsFourModeRun(t) /\ ~Shading) =>
              [i \in DOMAIN sp |-> sp[i].label] = <<"Nadir", "Sun", "Velocity", "Inertial">>

\* the loop has ended on a table that runs through the four modes
C14_Witness ==
    /\ ~Shading
    /\ IsFourModeRun(shading.df_ops_modes)
    /\ Len(shading.spans) = 4

\* C18: on a non-empty table the first row starts the first span, each span ends
\* where the next starts, no span ends before it starts, and once the loop has ended
\* the last span ends at the last sample, so that the spans cover the time from the
\* first sample to the last with no gap and no overlap; on an empty table the loop
\* body never runs.
C18_SpansPartitionSampledTime ==
    LET t == shading.df_ops_modes
        d == shading.df_ops_modes_diff
        sp == shading.spans
    IN  /\ t # <<>> => /\ Len(d) >= 1
                       /\ d[1] = t[1]
                       /\ Len(sp) >= 1 => sp[1].x = t[1].Time
        /\ \A i \in DOMAIN sp : sp[i].x <= sp[i].y
        /\ \A i \in 1..(Len(sp) - 1) : sp[i].y = sp[i + 1].x /\ sp[i].x < sp[i + 1].x
        /\ (t # <<>> /\ ~Shading) => /\ Len(sp) = Len(d)
                                     /\ sp[Len(sp)].y = t[Len(t)].Time
        /\ t = <<>> => /\ d = <<>>
                       /\ sp = <<>>
                       /\ ~Shading

\* the loop has ended after three spans on a table of four samples
C18_Witness ==
    /\ ~Shading
    /\ Len(shading.df_ops_modes) = 4
    /\ Len(shading.spans) = 3
    /\ shading.spans[3].y = shading.df_ops_modes[4].Time

\* the object call i created: the variable it was assigned to, or the element its
\* append added to the list
ObjectOf(i) ==
    LET r == Prog[i].res
    IN  IF r[2] = "assign" THEN Deref(H(r[1]))
        ELSE Deref(At(r[1], Cardinality({j \in 1..i : Prog[j].res = r})))

\* the set calls made so far on the object call i created
SetsOn(i) ==
    {j \in DOMAIN Prog : /\ Prog[j].op = "set"
                         /\ Returned(j)
                         /\ Prog[i].res[2] = "assign"
                         /\ Prog[j].recv = H(Prog[i].res[1])}

\* the properties of the object call i created: a property has the value the last
\* set call naming it gave, else the value it was created with
OverridesOf(i) ==
    {p \in Prog[i].props : \A j \in SetsOn(i) : \A q \in Prog[j].props : q[1] # p[1]}
    \cup UNION {{p \in Prog[j].props :
                    \A k \in SetsOn(i) : k > j => \A q \in Prog[k].props : q[1] # p[1]} :
                j \in SetsOn(i)}

PropsOf(h) == objs[Deref(h)].props

\* C15: an object has exactly the properties its creating call and the set calls on
\* it named, each with the value given last, and nothing else overridden: the
\* Battery of notebook 3 has only ChargeFraction=0.2, each ReactionWheel only its
\* WheelSpinAxis_B, and after computer.set(PointingMode="Sun") the computer still has
\* ControllerMode="MRP" and MappingMode="ReactionWheels".
C15_OnlyNamedPropertiesChange ==
    /\ \A i \in DOMAIN Prog :
          (Prog[i].op \in CreateOps /\ Returned(i)) =>
              /\ ObjectOf(i) \in DOMAIN objs
              /\ objs[ObjectOf(i)].type = Prog[i].name
              /\ objs[ObjectOf(i)].props = OverridesOf(i)
    /\ nb = "nb3" =>
          /\ Deref(H("battery")) # 0 => PropsOf(H("battery")) = {<<"ChargeFraction", "0.2">>}
          /\ \A w \in {"rw1", "rw2", "rw3"} :
                Deref(H(w)) # 0 =>
                    {p[1] : p \in PropsOf(H(w))} = {"WheelSpinAxis_B"}
          /\ \A i \in DOMAIN Prog :
                (Prog[i].op = "set" /\ Returned(i)) =>
                    /\ {p \in PropsOf(H("computer")) : p[1] # "PointingMode"} =
                          {<<"ControllerMode", "MRP">>, <<"MappingMode", "ReactionWheels">>}
                    /\ Cardinality({p \in PropsOf(H("computer")) : p[1] = "PointingMode"}) = 1

\* computer.set(PointingMode="Sun") has returned
C15_Witness ==
    /\ nb = "nb3"
    /\ Deref(H("computer")) # 0
    /\ <<"PointingMode", "Sun">> \in PropsOf(H("computer"))
    /\ <<"ControllerMode", "MRP">> \in PropsOf(H("computer"))

\* the seven per-spacecraft containers of the constellation notebook
Containers ==
    {"spacecraft", "navigators", "ephem_converter_fsws", "lvlh_fsws",
     "attitude_tracking_error_fsws", "mrp_feedback_fsws", "ext_torque"}

\* the creation loops have run: every add_component call has returned
LoopsDone == \A i \in DOMAIN Prog : Prog[i].op = "add_component" => Returned(i)

\* C16: in the constellation notebook a component is only ever appended at the index
\* of the spacecraft that owns it, and once the two loops have run all seven lists
\* have num_spacecraft entries, the spacecraft being distinct objects; every
\* subscribe and fetch_df call by index addresses spacecraft[i] or a component
\* owned by spacecraft[i].
C16_ContainersIndexAligned ==
    nb = "constellation" =>
        /\ \A v \in Containers \ {"spacecraft"} : \A k \in DOMAIN env[v] :
              /\ k \in DOMAIN env["spacecraft"]
              /\ objs[env[v][k]].parent = env["spacecraft"][k]
        /\ \A k, l \in DOMAIN env["spacecraft"] :
              /\ objs[env["spacecraft"][k]].type = "Spacecraft"
              /\ env["spacecraft"][k] = env["spacecraft"][l] => k = l
        /\ LoopsDone => \A v \in Containers : Len(env[v]) = NumSpacecraft
        /\ \A i \in outstanding :
              Prog[i].op \in TrackOps \cup QueryOps =>
                  LET h == Prog[i].src
                  IN  /\ LoopsDone
                      /\ h[1] \in Containers
                      /\ h[2] \in 1..NumSpacecraft
                      /\ \/ h[1] = "spacecraft"
                         \/ objs[Deref(h)].parent = env["spacecraft"][h[2]]

\* both loops have run and the last fetch_df by index is being made
C16_Witness ==
    /\ nb = "constellation"
    /\ LoopsDone
    /\ Len(env["ext_torque"]) = NumSpacecraft
    /\ \E i \in outstanding :
          Prog[i].op = "fetch_df" /\ Prog[i].src = At("attitude_tracking_error_fsws", NumSpacecraft)

\* the pointing modes of notebook 3, in the order they are set
Nb3Modes == <<"Nadir", "Sun", "Velocity", "Inertial">>

\* the calls of the run that set a pointing mode or advance time, in program order
ModeSchedule ==
    LET pick(c) == \/ c.op = "tick_duration"
                   \/ c.op = "set" /\ \E p \in c.props : p[1] = "PointingMode"
        sel == SelectSeq(Prog, pick)
    IN  [k \in DOMAIN sel |->
            IF sel[k].op = "tick_duration" THEN <<"tick_duration", sel[k].time>>
            ELSE <<"set", (CHOOSE p \in sel[k].props : p[1] = "PointingMode")[2]>>]

\* C17: notebook 3 calls set(Nadir), tick_duration(864), set(Sun), tick_duration(864),
\* set(Velocity), tick_duration(864), set(Inertial), tick_duration(864) in this order;
\* the k-th advance lasts 864 s and runs, from its start to its end, in the k-th of
\* the four modes, so each mode is in force for exactly one advance and no advance
\* runs without a mode set.
C17_FourEqualSegments ==
    nb = "nb3" =>
        /\ ModeSchedule =
              << <<"set", "Nadir">>, <<"tick_duration", Nb3Duration>>,
                 <<"set", "Sun">>, <<"tick_duration", Nb3Duration>>,
                 <<"set", "Velocity">>, <<"tick_duration", Nb3Duration>>,
                 <<"set", "Inertial">>, <<"tick_duration", Nb3Duration>> >>
        /\ Len(advances) <= Len(Nb3Modes)
        /\ \A k \in DOMAIN advances :
              /\ advances[k].to - advances[k].from = Nb3Duration
              /\ advances[k].modes = {<<Deref(H("computer")), Nb3Modes[k]>>}
        /\ \A i \in outstanding :
              Prog[i].op = "tick_duration" =>
                  /\ outstanding = {i}
                  /\ ModeOf(Deref(H("computer"))) = Nb3Modes[Len(advances) + 1]
        /\ Finished => Len(advances) = Len(Nb3Modes)

\* the fourth advance of notebook 3 has run, in Inertial mode
C17_Witness ==
    /\ nb = "nb3"
    /\ Len(advances) = 4
    /\ advances[4].modes = {<<Deref(H("computer")), "Inertial">>}

MessageOf(h, m) == <<Deref(h), m>>

\* C20: when a call is made, every handle it uses (its receiver, the owner passed to
\* add_component, the ids passed to Connect, the source of every link keyword) names
\* an object that an earlier call of the run returned, and every message it is given
\* (the output bound to an In_ keyword, the message tracked, subscribed or retrieved)
\* was resolved by an earlier call on an existing object.
C20_NoUseBeforeCreation ==
    \A i \in outstanding :
        LET c == Prog[i]
        IN  /\ \A h \in HandlesOf(c) : Deref(h) \in DOMAIN objs
            /\ \A l \in c.links :
                  /\ Deref(l[2]) \in DOMAIN objs
                  /\ MessageOf(l[2], l[3]) \in messages
            /\ c.op \in TrackOps \cup QueryOps => MessageOf(c.src, c.msg) \in messages
            /\ \A j \in 1..(i - 1) : Returned(j)

\* the last component of the flight software loop is being created, linked to the
\* controller made just before it
C20_Witness ==
    /\ nb = "constellation"
    /\ \E i \in outstanding :
          /\ Prog[i].op = "add_component"
          /\ Prog[i].res = AppendTo("ext_torque")
          /\ Prog[i].args = << At("spacecraft", NumSpacecraft) >>
          /\ Prog[i].links # {}

\* the first and the last tick_duration call of the notebook
FirstTick == CHOOSE t \in TickCalls : \A u \in TickCalls : t <= u
LastTick == CHOOSE t \in TickCalls : \A u \in TickCalls : u <= t

\* call i evaluates a keyword argument of set call j: a get_message call of the same
\* statement, with nothing but such calls between it and the set call
ArgumentOf(i, j) ==
    /\ i < j
    /\ Prog[j].op = "set"
    /\ \A k \in i..(j - 1) :
          /\ Prog[k].op = "get_message"
          /\ Prog[k].cell = Prog[j].cell
          /\ \E l \in Prog[j].links : l[2] = Prog[k].src /\ l[3] = Prog[k].msg

FedBy(h, out) == {<<e.dst, e.in>> : e \in {x \in links : x.src = Deref(h) /\ x.out = Out(out)}}

\* C22: an input is bound to at most one output at any time.  In notebook 4, until the
\* re-link returns no input is bound to sun_point's Out_AttitudeErrorMsg; once it has
\* returned exactly one input is, the controller's In_AttitudeErrorMsg, and no input
\* is bound to attitude_tracking_error_fsw's Out_AttitudeErrorMsg any more.  An
\* output may feed several inputs: once the voltage mapping is added, the reaction
\* wheel array's Out_RWArrayConfigMsg feeds three behaviours.
C22_OneOutputPerInput ==
    /\ \A e, f \in links : (e.dst = f.dst /\ e.in = f.in) => e = f
    /\ nb = "nb4" =>
          /\ \A i \in RelinkCalls :
                IF Returned(i)
                THEN /\ FedBy(H("sun_point"), "AttitudeErrorMsg") =
                           {<<Deref(H("mrp_feedback_fsw")), In("AttitudeErrorMsg")>>}
                     /\ FedBy(H("attitude_tracking_error_fsw"), "AttitudeErrorMsg") = {}
                ELSE /\ FedBy(H("sun_point"), "AttitudeErrorMsg") = {}
                     /\ Deref(H("mrp_feedback_fsw")) # 0 =>
                           FedBy(H("attitude_tracking_error_fsw"), "AttitudeErrorMsg") =
                               {<<Deref(H("mrp_feedback_fsw")), In("AttitudeErrorMsg")>>}
          /\ Deref(H("rw_motor_voltage_fsw")) # 0 =>
                FedBy(H("reaction_wheels"), "RWArrayConfigMsg") =
                    {<<Deref(H(v)), In("RWArrayConfigMsg")>> :
                        v \in {"mrp_feedback_fsw", "rw_motor_torque_fsw", "rw_motor_voltage_fsw"}}

\* the re-link of notebook 4 has returned, with the wheel array's output feeding three
C22_Witness ==
    /\ nb = "nb4"
    /\ \E i \in RelinkCalls : Returned(i)
    /\ Cardinality(FedBy(H("reaction_wheels"), "RWArrayConfigMsg")) = 3
    /\ Cardinality(FedBy(H("sun_point"), "AttitudeErrorMsg")) = 1

\* the objects of S and those an object of S feeds through a link of lk
Successors(S, lk) == S \cup {e.dst : e \in {x \in lk : x.src \in S}}

\* the objects data from an object of S flows to along the links of lk
RECURSIVE ReachedFrom(_, _)
ReachedFrom(S, lk) ==
    IF Successors(S, lk) = S THEN S ELSE ReachedFrom(Successors(S, lk), lk)

\* the wiring of notebook 4 is complete: reaction_wheels.set(In_MotorTorqueArrayMsg=...)
\* has returned
WiringDone ==
    \E i \in DOMAIN Prog :
        /\ Prog[i].op = "set"
        /\ Prog[i].recv = H("reaction_wheels")
        /\ Returned(i)

\* C23: once notebook 4 is wired, data flows from the reaction wheel array's
\* Out_RWArraySpeedMsg through the MRP feedback controller, the torque mapping, the
\* voltage mapping, the array's power model and the voltage-to-torque conversion into
\* the array's In_MotorTorqueArrayMsg; and the voltage mapping reaches the array only
\* through the power model: with the links into and out of the power model taken
\* away, nothing the voltage mapping feeds leads to the array.
C23_ControlLoopThroughPowerModel ==
    (nb = "nb4" /\ WiringDone) =>
        LET rw == H("reaction_wheels")
            mrp == H("mrp_feedback_fsw")
            torque == H("rw_motor_torque_fsw")
            voltage == H("rw_motor_voltage_fsw")
            power == H("rw_motor_power_model")
            io == H("rw_voltage_io")
            past == {e \in links : e.src # Deref(power) /\ e.dst # Deref(power)}
        IN  /\ LinkOf(mrp, "RWArraySpeedMsg", rw, "RWArraySpeedMsg") \in links
            /\ LinkOf(torque, "CommandTorqueMsg", mrp, "CommandTorqueMsg") \in links
            /\ LinkOf(voltage, "MotorTorqueArrayMsg", torque, "MotorTorqueArrayMsg") \in links
            /\ LinkOf(power, "MotorVoltageArrayMsg", voltage, "MotorVoltageArrayMsg") \in links
            /\ LinkOf(io, "MotorVoltageArrayMsg", power, "MotorVoltageArrayMsg") \in links
            /\ LinkOf(rw, "MotorTorqueArrayMsg", io, "MotorTorqueArrayMsg") \in links
            /\ <<objs[Deref(mrp)].type, objs[Deref(torque)].type, objs[Deref(voltage)].type,
                 objs[Deref(power)].type, objs[Deref(io)].type, objs[Deref(rw)].type>> =
                  <<"MRPFeedbackControlSoftware", "RWTorqueMappingSoftware",
                    "RWVoltageMappingSoftware", "ReactionWheelArrayPowerModel",
                    "VoltageTorqueConversionSoftware", "ReactionWheelArray">>
            /\ Cardinality({Deref(h) : h \in {rw, mrp, torque, voltage, power, io}}) = 6
            /\ Deref(rw) \in ReachedFrom({Deref(voltage)}, links)
            /\ Deref(rw) \notin ReachedFrom({Deref(voltage)}, past)
            /\ ReachedFrom({Deref(voltage)}, past) = {Deref(voltage)}

\* notebook 4 is wired and the array is reached from the voltage mapping
C23_Witness ==
    /\ nb = "nb4"
    /\ WiringDone
    /\ Deref(H("reaction_wheels")) \in ReachedFrom({Deref(H("rw_motor_voltage_fsw"))}, links)

====
